---- MODULE Spec2Model ----
(***************************************************************************)
(* The publications fetcher (src/app.py): a Dash callback validates an     *)
(* ORCID identifier, discovers the DOIs of its works, fetches Crossref and *)
(* Altmetric metadata per DOI through flask-caching's memoize, compiles    *)
(* one record per DOI and hands the table to the page.  Callbacks run on   *)
(* the server's worker threads, so two of them may overlap; the cache is   *)
(* the state they share.                                                   *)
(***************************************************************************)
EXTENDS Integers, Sequences, FiniteSets, TLC

VARIABLES
    world,     \* what the three upstream services hold (fixed during a run)
    cache,     \* flask-caching store: memoize key -> cached return value
    req,       \* per worker thread: the callback invocation it is running
    ui,        \* the page: input box, stores, table, download button
    clicks,    \* number of button clicks so far
    dl,        \* result of the last download click
    probe      \* a string put to the identifier check on its own

vars == <<world, cache, req, ui, clicks, dl, probe>>

(***************************************************************************)
(* Bounds                                                                  *)
(***************************************************************************)
MaxClicks == 2

Workers == {"t1", "t2"}

(***************************************************************************)
(* Python values                                                           *)
(*                                                                         *)
(* A slot that may hold None (a dcc.Store, the input box, the result of    *)
(* dict.get(key), a field of a publication record) is a sequence of length *)
(* at most one: None is the empty one, Some(v) holds v.  Text typed into   *)
(* the input box is a tuple of one-character strings; other text is a      *)
(* string; a list is a sequence; a dict is a function on its keys.         *)
(***************************************************************************)
None == <<>>

Some(v) == <<v>>

\* {} : a dict with no keys
EmptyBag == [k \in {} |-> 0]

\* bag.get(key, default)
Get(bag, key, default) == IF key \in DOMAIN bag THEN bag[key] ELSE default

\* bag.get(key, 0) in place of bag.get(key)
GetOptZero(bag, key) == IF key \in DOMAIN bag THEN Some(bag[key]) ELSE Some(0)

\* bag.get(key), which is None for a missing key
GetOpt(bag, key) == IF key \in DOMAIN bag THEN Some(bag[key]) ELSE None

\* ', '.join(list of str)
RECURSIVE Join(_)
Join(ss) ==
    IF ss = <<>> THEN ""
    ELSE IF Len(ss) = 1 THEN ss[1]
    ELSE ss[1] \o ", " \o Join(Tail(ss))

\* dash.no_update for an output, or the value the callback returns for it
no_update == [update |-> FALSE]

Update(v) == [update |-> TRUE, value |-> v]

\* What the page holds for an output after the callback's return
Apply(old, output) == IF output.update THEN output.value ELSE old

(***************************************************************************)
(* Identifier strings                                                      *)
(***************************************************************************)
Digits == {"0", "1", "2", "3", "4", "5", "6", "7", "8", "9"}

Orcid1 == <<"0","0","0","0","-","0","0","0","2","-","1","8","2","5","-","0","0","9","7">>
Orcid2 == <<"0","0","0","0","-","0","0","0","2","-","1","6","9","4","-","2","3","3","X">>
Short  == <<"1","2","3","4","5">>

\* re.match(r'^\d{4}-\d{4}-\d{4}-[\dX]{4}$', s) is not None.
\* '$' matches at the end of the string and also just before a newline that
\* ends the string.
re_match(s) ==
    /\ \/ Len(s) = 19
       \/ Len(s) = 20 /\ s[20] = "\n"
    /\ \A i \in 1..19 :
          IF i \in {5, 10, 15} THEN s[i] = "-"
          ELSE IF i >= 16 THEN s[i] \in Digits \cup {"X"}
          ELSE s[i] \in Digits

\* `not orcid_id or not re.match(...)`: the guard of the invalid-format return
Rejected(orcid_id) ==
    \/ orcid_id = None
    \/ orcid_id[1] = <<>>
    \/ ~ re_match(orcid_id[1])

(***************************************************************************)
(* Upstream services                                                       *)
(***************************************************************************)
DoiA == "10.1/a"
DoiB == "10.1/b"

\* An external-id entry of an ORCID work summary
ExtId(type, value) ==
    ("external-id-type" :> type) @@ ("external-id-value" :> value)

\* A work summary with its external-ids object
Summary(ids) == ("external-ids" :> ("external-id" :> ids))

\* A work summary whose payload carries no external-ids object
SummaryNoIds == ("put-code" :> 7)

\* A work group with its list of summaries
Work(summaries) == ("work-summary" :> summaries)

\* ORCID 'group' lists
WorksTwo ==
    << Work(<< Summary(<<ExtId("pmid", "77"), ExtId("doi", DoiB)>>) >>),
       Work(<< Summary(<<ExtId("eid", "2-s2.0")>>) >>),
       Work(<< Summary(<<ExtId("doi", DoiA)>>), Summary(<<ExtId("doi", "10.9/z")>>) >>) >>
WorksDup ==
    << Work(<< Summary(<<ExtId("doi", DoiA)>>) >>),
       Work(<< Summary(<<ExtId("doi", DoiA)>>) >>) >>
WorksNone == <<>>
WorksNoIds ==
    << Work(<< Summary(<<ExtId("doi", DoiA)>>) >>), Work(<< SummaryNoIds >>) >>
WorksOne ==
    << Work(<< Summary(<<ExtId("eid", "9"), ExtId("doi", DoiB)>>) >>) >>

\* Crossref 'message' objects
MetaFull ==
    [title |-> <<"Paper A", "Alt title">>,
     author |-> << [given |-> "Ada", family |-> "Byron"],
                   [family |-> "Consortium"],
                   [given |-> "Alan", family |-> "Turing"] >>,
     published |-> ("date-parts" :> << <<2020, 5>> >>),
     publisher |-> "ACM",
     type |-> "journal-article",
     subject |-> <<"Logic">>,
     funder |-> << [name |-> "NSF"], [award |-> "1"] >>]
    @@ ("container-title" :> <<"J. Proc.", "JP">>)
    @@ ("is-referenced-by-count" :> 3)
MetaNoTitle == [title |-> <<>>, publisher |-> "ACM"]
MetaSparse  == [title |-> <<"Paper B">>, published |-> [online |-> 1]]

\* Altmetric objects
AltFull   == [score |-> 5, readers_count |-> 10]
AltSparse == [readers_count |-> 2]

Docs == {DoiA, DoiB}

\* What the services hold: the works of each well-formed identifier, the
\* Crossref message and the Altmetric object of each DOI.
Worlds ==
    { [works |-> (Orcid1 :> wm[1]) @@ (Orcid2 :> WorksOne),
       meta  |-> (DoiA :> wm[2]) @@ (DoiB :> MetaSparse),
       alt   |-> (DoiA :> AltFull) @@ (DoiB :> AltSparse)] :
      wm \in { <<WorksTwo, MetaFull>>, <<WorksDup, MetaFull>>,
               <<WorksDup, MetaNoTitle>>, <<WorksNone, MetaFull>>,
               <<WorksNoIds, MetaFull>> } }

(***************************************************************************)
(* The fetch functions                                                     *)
(***************************************************************************)
\* What an upstream HTTP request can do: answer 200 with the service's
\* payload, or end in a requests.RequestException (connection error, or an
\* error status turned into HTTPError by raise_for_status).
Responses == {"ok", "RequestException"}

\* The upstream request a fetch function issues: service and argument
Request(fn, arg) == <<fn, arg>>

\* A value a fetch function returns.  `body` is the Python value; `origin`
\* and `failed` are history: the upstream request it came from and whether
\* that request ended in the except branch.
Val(fn, arg, failed, body) ==
    [origin |-> Request(fn, arg), failed |-> failed, body |-> body]

NoVal == Val("", "", FALSE, <<>>)

\* A call that returns v / a call that raises
Returned(v) == [raised |-> FALSE, value |-> v]

Raised == [raised |-> TRUE]

\* [id['external-id-value'] for id in ids if id['external-id-type'] == 'doi']
RECURSIVE DoiValues(_)
DoiValues(ids) ==
    IF ids = <<>> THEN <<>>
    ELSE (IF ids[1]["external-id-type"] = "doi"
          THEN <<ids[1]["external-id-value"]>> ELSE <<>>)
         \o DoiValues(Tail(ids))

\* work['work-summary'][0]['external-ids']['external-id'] raises IndexError
\* or KeyError for some work of the list
ExtractRaises(works) ==
    \E i \in 1..Len(works) :
        \/ works[i]["work-summary"] = <<>>
        \/ "external-ids" \notin DOMAIN works[i]["work-summary"][1]

\* The list comprehension over the works: first summary of each, in order
RECURSIVE ExtractDois(_)
ExtractDois(works) ==
    IF works = <<>> THEN <<>>
    ELSE DoiValues(works[1]["work-summary"][1]["external-ids"]["external-id"])
         \o ExtractDois(Tail(works))

\* Body of fetch_orcid_publications, run on a cache miss
fetch_orcid_publications(orcid_id, resp) ==
    IF resp = "RequestException"
    THEN Returned(Val("fetch_orcid_publications", orcid_id, TRUE, <<>>))
    ELSE IF ExtractRaises(world.works[orcid_id])
    THEN Raised
    ELSE Returned(Val("fetch_orcid_publications", orcid_id, FALSE,
                      ExtractDois(world.works[orcid_id])))

\* Body of fetch_crossref_metadata
fetch_crossref_metadata(doi, resp) ==
    IF resp = "RequestException"
    THEN Returned(Val("fetch_crossref_metadata", doi, TRUE, EmptyBag))
    ELSE Returned(Val("fetch_crossref_metadata", doi, FALSE, world.meta[doi]))

\* Body of fetch_altmetric_data
fetch_altmetric_data(doi, resp) ==
    IF resp = "RequestException"
    THEN Returned(Val("fetch_altmetric_data", doi, TRUE, EmptyBag))
    ELSE Returned(Val("fetch_altmetric_data", doi, FALSE, world.alt[doi]))

(***************************************************************************)
(* @cache.memoize()                                                        *)
(***************************************************************************)
\* The key of @cache.cached(): one per function, whatever the arguments
CacheKeyCached(fn, arg) == <<fn, "view">>

\* The memoize key: the decorated function and its arguments
CacheKey(fn, arg) == <<fn, arg>>

\* A lookup that never finds anything
CacheHitNever(fn, arg) == FALSE

\* cache.get(key) found a value
CacheHit(fn, arg) == CacheKey(fn, arg) \in DOMAIN cache

\* The cache after memoize's cache.set(key, rv)
CacheSet(fn, arg, rv) ==
    [k \in DOMAIN cache \cup {CacheKey(fn, arg)} |->
        IF k = CacheKey(fn, arg) THEN rv ELSE cache[k]]

\* memoize stores whatever the function returns; a call that raises stores
\* nothing
CacheAfter(fn, arg, result) ==
    IF result.raised THEN cache ELSE CacheSet(fn, arg, result.value)

(***************************************************************************)
(* collect_publication_info                                                *)
(***************************************************************************)
\* Every author rendered, str(None) standing for a name that is missing
AuthorsNameAny(authors_list) ==
    [i \in 1..Len(authors_list) |->
        Get(authors_list[i], "given", "None") \o " "
            \o Get(authors_list[i], "family", "None")]

\* The given/family pairs of the authors that carry both names
RECURSIVE AuthorsName(_)
AuthorsName(authors_list) ==
    IF authors_list = <<>> THEN <<>>
    ELSE (IF "given" \in DOMAIN authors_list[1] /\ "family" \in DOMAIN authors_list[1]
          THEN <<authors_list[1].given \o " " \o authors_list[1].family>>
          ELSE <<>>)
         \o AuthorsName(Tail(authors_list))

\* funder.get('name', '') for funder in funders
FunderNames(funders) == [i \in 1..Len(funders) |-> Get(funders[i], "name", "")]

\* metadata.get('published', {}).get('date-parts', [[None]])
DateParts(metadata) ==
    Get(Get(metadata, "published", EmptyBag), "date-parts", << <<None>> >>)

\* The subscripts [0] and [0][0] raise IndexError on an empty list
CollectRaises(metadata) ==
    \/ Get(metadata, "title", <<"">>) = <<>>
    \/ DateParts(metadata) = <<>>
    \/ DateParts(metadata)[1] = <<>>

\* The published year: the default [[None]] gives None
PublishedYear(metadata) ==
    IF "date-parts" \in DOMAIN Get(metadata, "published", EmptyBag)
    THEN Some(DateParts(metadata)[1][1])
    ELSE None

collect_publication_info(doi, metadata, altmetric_data) ==
    IF CollectRaises(metadata) THEN Raised
    ELSE Returned(
        ("DOI" :> Some(doi))
        @@ ("Title" :> Some(Get(metadata, "title", <<"">>)[1]))
        @@ ("Authors Name" :> Some(Join(AuthorsName(Get(metadata, "author", <<>>)))))
        @@ ("Published Year" :> PublishedYear(metadata))
        @@ ("Journal" :> Some(Join(Get(metadata, "container-title", <<>>))))
        @@ ("Publisher" :> Some(Get(metadata, "publisher", "")))
        @@ ("Publication Type" :> Some(Get(metadata, "type", "")))
        @@ ("Subject" :> Some(Join(Get(metadata, "subject", <<>>))))
        @@ ("Funders" :> Some(Join(FunderNames(Get(metadata, "funder", <<>>)))))
        @@ ("Citation count" :> Some(Get(metadata, "is-referenced-by-count", 0)))
        @@ ("Altmetric Score" :> GetOpt(altmetric_data, "score"))
        @@ ("Altmetric Read Count" :> GetOpt(altmetric_data, "readers_count")))


(***************************************************************************)
(* The page and the callback's return values                               *)
(***************************************************************************)
\* What the user can type into the input box
Typed == {Orcid1, Orcid2, Short}

\* The layout as served: nothing typed, stores empty, alert and button hidden
Layout ==
    [orcid_input       |-> None,
     status_alert      |-> "The ORCID number is valid. Fetching publications, please wait...",
     alert_style       |-> "none",
     spinner_style     |-> "none",
     stored_orcid_id   |-> None,
     table_container   |-> None,
     download_disabled |-> TRUE,
     download_style    |-> "none",
     stored_data       |-> None]

\* An invalid-format return that leaves the download button enabled and shown
InvalidKeepsButton ==
    [outcome |-> "invalid",
     message |-> "Missing or Invalid ORCID ID format. Please correct it and try again.",
     color |-> "warning", orcid |-> no_update, table |-> no_update,
     disabled |-> FALSE, display |-> "block", data |-> no_update]

\* The four returns of validate_fetch_and_update_ui; `outcome` names the
\* return statement taken.
InvalidReturn ==
    [outcome |-> "invalid",
     message |-> "Missing or Invalid ORCID ID format. Please correct it and try again.",
     color |-> "warning", orcid |-> no_update, table |-> no_update,
     disabled |-> TRUE, display |-> "none", data |-> no_update]

\* The empty frame reported through the error return
EmptyAsError(orcid_id) ==
    [outcome |-> "error",
     message |-> "An error occurred",
     color |-> "danger", orcid |-> no_update, table |-> no_update,
     disabled |-> TRUE, display |-> "none", data |-> no_update]

EmptyReturn(orcid_id) ==
    [outcome |-> "empty",
     message |-> "No publications found for the provided ORCID ID.",
     color |-> "secondary", orcid |-> Update(orcid_id), table |-> no_update,
     disabled |-> TRUE, display |-> "none", data |-> no_update]

FoundReturn(orcid_id, records) ==
    [outcome |-> "found",
     message |-> "Publications ready. You can now view or download the list.",
     color |-> "success", orcid |-> Update(orcid_id), table |-> Update(Some(records)),
     disabled |-> FALSE, display |-> "block", data |-> Update(Some(records))]

\* An error return that clears the table and the stored records
ErrorClears ==
    [outcome |-> "error",
     message |-> "An error occurred",
     color |-> "danger", orcid |-> no_update, table |-> Update(None),
     disabled |-> TRUE, display |-> "none", data |-> Update(None)]

ErrorReturn ==
    [outcome |-> "error",
     message |-> "An error occurred",
     color |-> "danger", orcid |-> no_update, table |-> no_update,
     disabled |-> TRUE, display |-> "none", data |-> no_update]

NoReturn ==
    [outcome |-> "", message |-> "", color |-> "", orcid |-> no_update,
     table |-> no_update, disabled |-> TRUE, display |-> "none", data |-> no_update]

\* A worker thread with no callback to run.  `overlap` is history: whether
\* another callback ran at some time while this one did.  `stale` says that
\* the page has asked for this callback again since this call was sent: the
\* page then no longer waits for this call and drops its response.
Idle ==
    [pc |-> "idle", orcid_id |-> None, disc |-> NoVal, dois |-> <<>>, i |-> 0,
     metadata |-> NoVal, altmetric_data |-> NoVal, publications_data |-> <<>>,
     ret |-> NoReturn, overlap |-> FALSE, stale |-> FALSE]

\* No string is being put to the check on its own
NoProbe == [raw |-> <<>>, edits |-> 0, checked |-> FALSE, outcome |-> "", passed |-> <<>>]

\* df.empty: the frame built from the list has no rows
DfEmpty(publications_data) == publications_data = <<>>

Init ==
    /\ world \in Worlds
    /\ cache = [k \in {} |-> NoVal]
    /\ req = [w \in Workers |-> Idle]
    /\ ui = Layout
    /\ clicks = 0
    /\ dl = [kind |-> "none"]
    /\ probe = NoProbe

\* The callback returns: its response is on its way to the page
Return(w, r, ret) ==
    req' = [req EXCEPT ![w] = [r EXCEPT !.pc = "respond", !.ret = ret]]

(***************************************************************************)
(* validate_fetch_and_update_ui                                            *)
(***************************************************************************)
\* The input box as the user may have left it before a click: as it was, or
\* with something typed.  The server sees the box only as the State of a
\* click, so typing is taken together with the click that follows it.
Boxes == {ui.orcid_input} \cup {Some(v) : v \in Typed}

\* The server gives a callback to its first free thread
FirstFree(w) ==
    /\ req[w].pc = "idle"
    /\ w = "t2" => req["t1"].pc # "idle"

\* A click on Submit starts the callback on a free thread with the input
\* box's value; an input that fails the check returns at once.  A call of
\* the same callback that is still running is superseded: the server goes on
\* with it, the page stops waiting for it.
Submit(w, box) ==
    /\ FirstFree(w)
    /\ clicks < MaxClicks
    /\ clicks' = clicks + 1
    /\ ui' = [ui EXCEPT !.orcid_input = box]
    /\ LET busy == \E o \in Workers : req[o].pc # "idle"
           others == [o \in Workers |->
                        IF req[o].pc # "idle"
                        THEN [req[o] EXCEPT !.overlap = TRUE, !.stale = TRUE]
                        ELSE req[o]]
           r == [Idle EXCEPT !.orcid_id = box, !.overlap = busy]
       IN
       IF Rejected(box)
       THEN req' = [others EXCEPT ![w] = [r EXCEPT !.pc = "respond", !.ret = InvalidReturn]]
       ELSE req' = [others EXCEPT ![w] = [r EXCEPT !.pc = "orcid"]]
    /\ UNCHANGED <<probe, world, cache, dl>>

\* build_publications_dataframe once fetch_orcid_publications has returned
\* v: an empty list gives an empty frame, otherwise the loop over it starts.
AfterDiscovery(w, v) ==
    LET r == [req[w] EXCEPT !.disc = v, !.dois = v.body] IN
    IF DfEmpty(v.body)
    THEN Return(w, r, EmptyReturn(r.orcid_id[1]))
    ELSE req' = [req EXCEPT ![w] = [r EXCEPT !.i = 1, !.pc = "crossref"]]

\* The memoized fetch_orcid_publications: cache.get
OrcidLookup(w) ==
    /\ req[w].pc = "orcid"
    /\ IF CacheHit("fetch_orcid_publications", req[w].orcid_id[1])
       THEN AfterDiscovery(w, cache[CacheKey("fetch_orcid_publications", req[w].orcid_id[1])])
       ELSE req' = [req EXCEPT ![w].pc = "orcid_net"]
    /\ UNCHANGED <<probe, world, cache, ui, clicks, dl>>

\* On a miss: the function body with its upstream request, then cache.set
OrcidFetch(w) ==
    /\ req[w].pc = "orcid_net"
    /\ \E resp \in Responses :
         LET result == fetch_orcid_publications(req[w].orcid_id[1], resp) IN
         /\ cache' = CacheAfter("fetch_orcid_publications", req[w].orcid_id[1], result)
         /\ IF result.raised
            THEN Return(w, req[w], ErrorReturn)
            ELSE AfterDiscovery(w, result.value)
    /\ UNCHANGED <<probe, world, ui, clicks, dl>>

\* collect_publication_info(doi): the memoized fetch_crossref_metadata
CrossrefLookup(w) ==
    /\ req[w].pc = "crossref"
    /\ LET doi == req[w].dois[req[w].i] IN
       IF CacheHit("fetch_crossref_metadata", doi)
       THEN req' = [req EXCEPT ![w].metadata = cache[CacheKey("fetch_crossref_metadata", doi)],
                               ![w].pc = "altmetric"]
       ELSE req' = [req EXCEPT ![w].pc = "crossref_net"]
    /\ UNCHANGED <<probe, world, cache, ui, clicks, dl>>

\* A Crossref call after which the record is compiled at once, with the
\* Altmetric call not made
CrossrefFetchThenCompile(w) ==
    /\ req[w].pc = "crossref_net"
    /\ \E resp \in Responses :
         LET doi == req[w].dois[req[w].i]
             result == fetch_crossref_metadata(doi, resp) IN
         /\ cache' = CacheAfter("fetch_crossref_metadata", doi, result)
         /\ req' = [req EXCEPT ![w].metadata = result.value,
                               ![w].pc = "compile"]
    /\ UNCHANGED <<probe, world, ui, clicks, dl>>

CrossrefFetch(w) ==
    /\ req[w].pc = "crossref_net"
    /\ \E resp \in Responses :
         LET doi == req[w].dois[req[w].i]
             result == fetch_crossref_metadata(doi, resp) IN
         /\ cache' = CacheAfter("fetch_crossref_metadata", doi, result)
         /\ req' = [req EXCEPT ![w].metadata = result.value,
                               ![w].pc = "altmetric"]
    /\ UNCHANGED <<probe, world, ui, clicks, dl>>

\* The memoized fetch_altmetric_data
AltmetricLookup(w) ==
    /\ req[w].pc = "altmetric"
    /\ LET doi == req[w].dois[req[w].i] IN
       IF CacheHit("fetch_altmetric_data", doi)
       THEN req' = [req EXCEPT ![w].altmetric_data = cache[CacheKey("fetch_altmetric_data", doi)],
                               ![w].pc = "compile"]
       ELSE req' = [req EXCEPT ![w].pc = "altmetric_net"]
    /\ UNCHANGED <<probe, world, cache, ui, clicks, dl>>

AltmetricFetch(w) ==
    /\ req[w].pc = "altmetric_net"
    /\ \E resp \in Responses :
         LET doi == req[w].dois[req[w].i]
             result == fetch_altmetric_data(doi, resp) IN
         /\ cache' = CacheAfter("fetch_altmetric_data", doi, result)
         /\ req' = [req EXCEPT ![w].altmetric_data = result.value,
                               ![w].pc = "compile"]
    /\ UNCHANGED <<probe, world, ui, clicks, dl>>

\* The rest of collect_publication_info and the loop of
\* build_publications_dataframe: the record is appended and the next DOI
\* taken; after the last one the frame is built and the callback returns.
\* An exception leaves through the callback's `except Exception`.
Compile(w) ==
    /\ req[w].pc = "compile"
    /\ LET r == req[w]
           result == collect_publication_info(r.dois[r.i], r.metadata.body,
                                              r.altmetric_data.body)
           data == Append(r.publications_data, result.value)
       IN
       IF result.raised
       THEN Return(w, r, ErrorReturn)
       ELSE IF r.i < Len(r.dois)
       THEN req' = [req EXCEPT ![w].publications_data = data,
                               ![w].i = @ + 1,
                               ![w].pc = "crossref"]
       ELSE Return(w, [r EXCEPT !.publications_data = data],
                   IF DfEmpty(data) THEN EmptyReturn(r.orcid_id[1])
                   ELSE FoundReturn(r.orcid_id[1], data))
    /\ UNCHANGED <<probe, world, cache, ui, clicks, dl>>

\* The page after it has set the outputs of the callback to `ret`
Outputs(ret) ==
    [ui EXCEPT !.status_alert      = ret.message,
               !.alert_style       = ret.color,
               !.spinner_style     = "none",
               !.stored_orcid_id   = Apply(@, ret.orcid),
               !.table_container   = Apply(@, ret.table),
               !.download_disabled = ret.disabled,
               !.download_style    = ret.display,
               !.stored_data       = Apply(@, ret.data)]

\* A page that sets the outputs from every response, superseded or not
RespondAlways(w) ==
    /\ req[w].pc = "respond"
    /\ ui' = Outputs(req[w].ret)
    /\ req' = [req EXCEPT ![w] = Idle]
    /\ UNCHANGED <<probe, world, cache, clicks, dl>>

\* The response reaches the page, which sets the callback's outputs from it
\* unless the call was superseded
Respond(w) ==
    /\ req[w].pc = "respond"
    /\ ui' = IF req[w].stale THEN ui ELSE Outputs(req[w].ret)
    /\ req' = [req EXCEPT ![w] = Idle]
    /\ UNCHANGED <<probe, world, cache, clicks, dl>>

(***************************************************************************)
(* download_publications_list                                              *)
(***************************************************************************)
\* \w of the pattern, over the characters used here
WordChars == Digits \cup {"X", "_"}

\* re.sub(r'[^\w\-_]', '_', orcid_id)
Sanitize(s) ==
    [i \in 1..Len(s) |-> IF s[i] \in WordChars \cup {"-", "_"} THEN s[i] ELSE "_"]

\* A click on the download button, which the page offers only while it is
\* enabled.  The callback reads the store and the input box; it makes no
\* upstream request.  With nothing stored it raises PreventUpdate; otherwise
\* the stored rows are sent under a name made from the box's text.
Download(box) ==
    /\ ~ ui.download_disabled
    /\ clicks < MaxClicks
    /\ clicks' = clicks + 1
    /\ ui' = [ui EXCEPT !.orcid_input = box]
    /\ dl' = IF ui.stored_data = None THEN [kind |-> "PreventUpdate"]
             ELSE IF box = None THEN [kind |-> "TypeError"]
             ELSE [kind |-> "file",
                   filename |-> [stem |-> Sanitize(box[1]),
                                 suffix |-> "_publications_list.csv"],
                   rows |-> ui.stored_data[1]]
    /\ UNCHANGED <<probe, world, cache, req>>

Next ==
    \/ \E box \in Boxes : Download(box)
    \/ \E w \in Workers :
         \/ \E box \in Boxes : Submit(w, box)
         \/ OrcidLookup(w)
         \/ OrcidFetch(w)
         \/ CrossrefLookup(w)
         \/ CrossrefFetch(w)
         \/ AltmetricLookup(w)
         \/ AltmetricFetch(w)
         \/ Compile(w)
         \/ Respond(w)

Spec == Init /\ [][Next]_vars


(***************************************************************************)
(* The identifier check on its own: strings made from the identifiers      *)
(* above by a few single-character edits are put to the guard of           *)
(* validate_fetch_and_update_ui.                                           *)
(***************************************************************************)
MaxEdits == 2

Alphabet == {"0", "7", "X", "-", "a", " ", "\n"}

\* What the callback does with the string: the invalid-format return, or
\* on to build_publications_dataframe(orcid_id) with the string it was given
Check ==
    /\ ~ probe.checked
    /\ probe' = IF Rejected(Some(probe.raw))
                THEN [probe EXCEPT !.checked = TRUE, !.outcome = InvalidReturn.outcome]
                ELSE [probe EXCEPT !.checked = TRUE, !.outcome = "fetch",
                                   !.passed = probe.raw]
    /\ UNCHANGED <<world, cache, req, ui, clicks, dl>>

Replace(i, c) ==
    /\ ~ probe.checked
    /\ probe.edits < MaxEdits
    /\ i \in 1..Len(probe.raw)
    /\ probe.raw[i] # c
    /\ probe' = [probe EXCEPT !.raw = [probe.raw EXCEPT ![i] = c], !.edits = @ + 1]
    /\ UNCHANGED <<world, cache, req, ui, clicks, dl>>

Insert(i, c) ==
    /\ ~ probe.checked
    /\ probe.edits < MaxEdits
    /\ i \in 0..Len(probe.raw)
    /\ probe' = [probe EXCEPT !.raw = SubSeq(probe.raw, 1, i) \o <<c>>
                                        \o SubSeq(probe.raw, i + 1, Len(probe.raw)),
                              !.edits = @ + 1]
    /\ UNCHANGED <<world, cache, req, ui, clicks, dl>>

Delete(i) ==
    /\ ~ probe.checked
    /\ probe.edits < MaxEdits
    /\ i \in 1..Len(probe.raw)
    /\ probe' = [probe EXCEPT !.raw = SubSeq(probe.raw, 1, i - 1)
                                        \o SubSeq(probe.raw, i + 1, Len(probe.raw)),
                              !.edits = @ + 1]
    /\ UNCHANGED <<world, cache, req, ui, clicks, dl>>

InitValidate ==
    /\ probe \in {[NoProbe EXCEPT !.raw = b] : b \in Typed}
    /\ world = CHOOSE w \in Worlds : TRUE
    /\ cache = [k \in {} |-> NoVal]
    /\ req = [w \in Workers |-> Idle]
    /\ ui = Layout
    /\ clicks = 0
    /\ dl = [kind |-> "none"]

NextValidate ==
    \/ Check
    \/ \E i \in 0..20, c \in Alphabet : Replace(i, c) \/ Insert(i, c)
    \/ \E i \in 1..20 : Delete(i)

SpecValidate == InitValidate /\ [][NextValidate]_vars

(***************************************************************************)
(* The earlier copy of the app ("app copy.py").  The check of the input    *)
(* is a callback of its own that enables the Submit button; update_table   *)
(* fetches through memoized functions of its own shape: the DOIs come with *)
(* an error text, and fetch_metadata asks both services and caches the     *)
(* compiled record.  One callback at a time is followed here.              *)
(***************************************************************************)
\* re.match(r'^\d{4}-\d{4}-\d{4}-\d{4}$', value) is not None
copy_re_match(s) ==
    /\ \/ Len(s) = 19
       \/ Len(s) = 20 /\ s[20] = "\n"
    /\ \A i \in 1..19 :
          IF i \in {5, 10, 15} THEN s[i] = "-" ELSE s[i] \in Digits

\* validate_orcid_input: the value of the Submit button's `disabled`
validate_orcid_input(value) ==
    IF value = None THEN TRUE ELSE ~ copy_re_match(value[1])

\* The copy's layout: the button is served enabled, and the first call of
\* validate_orcid_input is on its way
CopyLayout ==
    [orcid_input     |-> None,
     submit_disabled |-> FALSE,
     validating      |-> TRUE,
     loading_spinner |-> ""]

\* The identifiers the works service knows; for any other it answers 404
Known(orcid_id) == orcid_id \in DOMAIN world.works

\* Body of the copy's fetch_orcid_publications: (dois, None) or ([], str(e))
copy_fetch_orcid_publications(orcid_id, resp) ==
    IF resp = "RequestException"
    THEN Returned(Val("fetch_orcid_publications", orcid_id, TRUE,
                      [dois |-> <<>>, error |-> Some("RequestException")]))
    ELSE IF ExtractRaises(world.works[orcid_id])
    THEN Raised
    ELSE Returned(Val("fetch_orcid_publications", orcid_id, FALSE,
                      [dois |-> ExtractDois(world.works[orcid_id]), error |-> None]))

\* compile_publication_info of the copy: three fields
compile_publication_info(doi, metadata, altmetric_data) ==
    IF Get(metadata, "title", <<"">>) = <<>> THEN Raised
    ELSE Returned(
        ("DOI" :> Some(doi))
        @@ ("Title" :> Some(Get(metadata, "title", <<"">>)[1]))
        @@ ("Authors Name" :> Some(Join(AuthorsName(Get(metadata, "author", <<>>))))))

\* Body of fetch_metadata: both requests, each failure leaving {}, then the
\* compiled record
fetch_metadata(doi, respA, respB) ==
    LET metadata == IF respA = "RequestException" THEN EmptyBag ELSE world.meta[doi]
        altmetric_data == IF respB = "RequestException" THEN EmptyBag ELSE world.alt[doi]
        result == compile_publication_info(doi, metadata, altmetric_data)
    IN  IF result.raised THEN Raised
        ELSE Returned(Val("fetch_metadata", doi,
                          respA = "RequestException" \/ respB = "RequestException",
                          result.value))

\* What update_table hands to the spinner
CopyReturn(outcome) == [NoReturn EXCEPT !.outcome = outcome]

InitCopy ==
    /\ world \in Worlds
    /\ cache = [k \in {} |-> NoVal]
    /\ req = [w \in Workers |-> Idle]
    /\ ui = CopyLayout
    /\ clicks = 0
    /\ dl = [kind |-> "none"]
    /\ probe = NoProbe

\* The user changes the input box; validate_orcid_input is called with it
CopyType(v) ==
    /\ ui.orcid_input # Some(v)
    /\ ui' = [ui EXCEPT !.orcid_input = Some(v), !.validating = TRUE]
    /\ UNCHANGED <<probe, world, cache, req, clicks, dl>>

\* validate_orcid_input returns and the button follows
CopyValidate ==
    /\ ui.validating
    /\ ui' = [ui EXCEPT !.submit_disabled = validate_orcid_input(ui.orcid_input),
                        !.validating = FALSE]
    /\ UNCHANGED <<probe, world, cache, req, clicks, dl>>

\* A click on Submit while the button is enabled: update_table starts with
\* the input box's value and turns away only an empty one
CopySubmit ==
    /\ ~ ui.submit_disabled
    /\ req["t1"].pc = "idle"
    /\ clicks < MaxClicks
    /\ clicks' = clicks + 1
    /\ LET r == [Idle EXCEPT !.orcid_id = ui.orcid_input] IN
       IF ui.orcid_input = None \/ ui.orcid_input[1] = <<>>
       THEN Return("t1", r, CopyReturn("invalid"))
       ELSE req' = [req EXCEPT !["t1"] = [r EXCEPT !.pc = "orcid"]]
    /\ UNCHANGED <<probe, world, cache, ui, dl>>

\* update_table after fetch_orcid_publications has returned v
CopyAfterDiscovery(v) ==
    LET r == [req["t1"] EXCEPT !.disc = v, !.dois = v.body.dois] IN
    IF v.body.error # None THEN Return("t1", r, CopyReturn("error"))
    ELSE IF v.body.dois = <<>> THEN Return("t1", r, CopyReturn("empty"))
    ELSE req' = [req EXCEPT !["t1"] = [r EXCEPT !.i = 1, !.pc = "metadata"]]

CopyOrcidLookup ==
    /\ req["t1"].pc = "orcid"
    /\ IF CacheHit("fetch_orcid_publications", req["t1"].orcid_id[1])
       THEN CopyAfterDiscovery(cache[CacheKey("fetch_orcid_publications", req["t1"].orcid_id[1])])
       ELSE req' = [req EXCEPT !["t1"].pc = "orcid_net"]
    /\ UNCHANGED <<probe, world, cache, ui, clicks, dl>>

\* The upstream request for the works of whatever string was submitted
CopyOrcidFetch ==
    /\ req["t1"].pc = "orcid_net"
    /\ \E resp \in Responses :
         /\ resp = "ok" => Known(req["t1"].orcid_id[1])
         /\ LET result == copy_fetch_orcid_publications(req["t1"].orcid_id[1], resp) IN
            /\ cache' = CacheAfter("fetch_orcid_publications", req["t1"].orcid_id[1], result)
            /\ IF result.raised
               THEN Return("t1", req["t1"], CopyReturn("exception"))
               ELSE CopyAfterDiscovery(result.value)
    /\ UNCHANGED <<probe, world, ui, clicks, dl>>

\* [fetch_metadata(doi) for doi in dois] with the record r for the current
\* DOI; after the last one update_table ends
CopyCollect(v) ==
    LET r == req["t1"]
        data == Append(r.publications_data, v.body) IN
    IF r.i < Len(r.dois)
    THEN req' = [req EXCEPT !["t1"].publications_data = data,
                            !["t1"].metadata = v,
                            !["t1"].i = @ + 1,
                            !["t1"].pc = "metadata"]
    ELSE Return("t1", [r EXCEPT !.publications_data = data, !.metadata = v],
                CopyReturn("table"))

CopyMetadataLookup ==
    /\ req["t1"].pc = "metadata"
    /\ LET doi == req["t1"].dois[req["t1"].i] IN
       IF CacheHit("fetch_metadata", doi)
       THEN CopyCollect(cache[CacheKey("fetch_metadata", doi)])
       ELSE req' = [req EXCEPT !["t1"].pc = "metadata_net"]
    /\ UNCHANGED <<probe, world, cache, ui, clicks, dl>>

CopyMetadataFetch ==
    /\ req["t1"].pc = "metadata_net"
    /\ \E respA \in Responses, respB \in Responses :
         LET doi == req["t1"].dois[req["t1"].i]
             result == fetch_metadata(doi, respA, respB) IN
         /\ cache' = CacheAfter("fetch_metadata", doi, result)
         /\ IF result.raised
            THEN Return("t1", req["t1"], CopyReturn("exception"))
            ELSE CopyCollect(result.value)
    /\ UNCHANGED <<probe, world, ui, clicks, dl>>

\* The response reaches the page
CopyRespond ==
    /\ req["t1"].pc = "respond"
    /\ ui' = [ui EXCEPT !.loading_spinner = req["t1"].ret.outcome]
    /\ req' = [req EXCEPT !["t1"] = Idle]
    /\ UNCHANGED <<probe, world, cache, clicks, dl>>

NextCopy ==
    \/ \E v \in Typed : CopyType(v)
    \/ CopyValidate
    \/ CopySubmit
    \/ CopyOrcidLookup
    \/ CopyOrcidFetch
    \/ CopyMetadataLookup
    \/ CopyMetadataFetch
    \/ CopyRespond

SpecCopy == InitCopy /\ [][NextCopy]_vars

(***************************************************************************)
(* Properties                                                              *)
(***************************************************************************)
\* Where a callback waits for an upstream response
NetPcs == {"orcid_net", "crossref_net", "altmetric_net"}

\* The callback on thread w has returned and its response is under way
HasReturned(w) == req[w].pc = "respond"

\* Discovery has handed its list to the callback on thread w
Discovered(w) == req[w].disc.origin[1] = "fetch_orcid_publications"

\* The record collect_publication_info appended last, while the values it
\* was compiled from are still in the thread's locals
JustCompiled(w) ==
    /\ req[w].publications_data # <<>>
    /\ \/ req[w].pc \in {"crossref", "crossref_net"}
       \/ HasReturned(w) /\ req[w].ret.outcome = "found"

LastRecord(w) == req[w].publications_data[Len(req[w].publications_data)]

LastDoi(w) == req[w].dois[Len(req[w].publications_data)]

\* C1: a failed upstream call is never cached -- no cache entry holds what a
\* fetch function returned from its except branch, so the fetch that follows
\* a failure finds nothing under the key and calls upstream again.
C1_FailedCallNeverCached ==
    \A k \in DOMAIN cache : ~ cache[k].failed

\* C2: when the Discovery request fails, the callback returns the failure
\* outcome (the error return), never "no publications found" and never a
\* collection.
C2_DiscoveryFailureSurfaced ==
    \A w \in Workers :
        (HasReturned(w) /\ Discovered(w) /\ req[w].disc.failed)
            => req[w].ret.outcome = "error"

\* C3: whatever the resolvers return or fail with for the documents of a
\* non-empty Discovery result, the callback returns a collection.
C3_MetadataFailureNeverAborts ==
    \A w \in Workers :
        (HasReturned(w) /\ Discovered(w) /\ ~ req[w].disc.failed
                        /\ req[w].dois # <<>>)
            => /\ req[w].ret.outcome = "found"
               /\ req[w].ret.data.update

\* C4: for a Discovery result of N >= 1 DOIs the callback returns a
\* collection of exactly N records, the i-th carrying the i-th DOI.
C4_OneRecordPerDoiInOrder ==
    \A w \in Workers :
        (HasReturned(w) /\ Discovered(w) /\ Len(req[w].dois) >= 1)
            => /\ req[w].ret.outcome = "found"
               /\ Len(req[w].publications_data) = Len(req[w].dois)
               /\ \A i \in 1..Len(req[w].dois) :
                     req[w].publications_data[i]["DOI"] = Some(req[w].dois[i])

\* The content fields of a publication record
ContentFields ==
    {"Title", "Authors Name", "Published Year", "Journal", "Publisher",
     "Publication Type", "Subject", "Funders", "Citation count",
     "Altmetric Score", "Altmetric Read Count"}

\* Both resolvers failed for the document whose record was compiled last
BothFailed(w) ==
    /\ JustCompiled(w)
    /\ req[w].metadata.failed
    /\ req[w].altmetric_data.failed

CurRequest(r) ==
    IF r.pc \in {"orcid", "orcid_net"}
    THEN Request("fetch_orcid_publications", r.orcid_id[1])
    ELSE IF r.pc \in {"crossref", "crossref_net"}
    THEN Request("fetch_crossref_metadata", r.dois[r.i])
    ELSE Request("fetch_altmetric_data", r.dois[r.i])

\* The memoize key of that request
CurKey(r) == CacheKey(CurRequest(r)[1], CurRequest(r)[2])

\* The value the memoized call of a callback at pc `at` handed back
Got(at, r) ==
    IF at = "orcid" THEN r.disc
    ELSE IF at = "crossref" THEN r.metadata
    ELSE r.altmetric_data

C7_NoMixing ==
    /\ \A id \in {Orcid1, Orcid2} :
          CacheKey("fetch_orcid_publications", id) \in DOMAIN cache
          => cache[CacheKey("fetch_orcid_publications", id)].origin
                = Request("fetch_orcid_publications", id)
    /\ \A fn \in {"fetch_crossref_metadata", "fetch_altmetric_data"}, doi \in Docs :
          CacheKey(fn, doi) \in DOMAIN cache
          => cache[CacheKey(fn, doi)].origin = Request(fn, doi)
    /\ \A w \in Workers :
          /\ Discovered(w)
             => req[w].disc.origin
                   = Request("fetch_orcid_publications", req[w].orcid_id[1])
          /\ req[w].pc \in {"altmetric", "altmetric_net", "compile"}
             => req[w].metadata.origin
                   = Request("fetch_crossref_metadata", req[w].dois[req[w].i])
          /\ req[w].pc = "compile"
             => req[w].altmetric_data.origin
                   = Request("fetch_altmetric_data", req[w].dois[req[w].i])

\* C7 witness: two overlapping callbacks asked for the same DOI's Crossref
\* metadata; one has its value and the entry is cached while the other's
\* upstream request for the same key is still under way, and the cache also
\* holds another key.
C7_Witness ==
    /\ req["t1"].pc = "altmetric"
    /\ req["t2"].pc = "crossref_net"
    /\ req["t1"].dois[req["t1"].i] = req["t2"].dois[req["t2"].i]
    /\ CacheKey("fetch_crossref_metadata", req["t2"].dois[req["t2"].i]) \in DOMAIN cache
    /\ Cardinality(DOMAIN cache) >= 3

\* C10: when Discovery succeeds with zero DOIs the callback returns the
\* "no publications found" outcome, which is not the error outcome, and no
\* metadata resolver was called for it.
C10_EmptyDiscovery ==
    \A w \in Workers :
        (Discovered(w) /\ ~ req[w].disc.failed /\ req[w].disc.body = <<>>)
            => /\ HasReturned(w)
               /\ req[w].ret = EmptyReturn(req[w].orcid_id[1])
               /\ req[w].ret.outcome # ErrorReturn.outcome
               /\ req[w].metadata = NoVal
               /\ req[w].altmetric_data = NoVal

\* C10 witness: a callback has returned after Discovery succeeded with zero
\* DOIs
C10_Witness ==
    \E w \in Workers :
        /\ HasReturned(w)
        /\ Discovered(w)
        /\ ~ req[w].disc.failed
        /\ req[w].disc.body = <<>>


\* The identifier shape: four groups of four characters separated by
\* hyphens, the first three all digits, the fourth digits with an optional
\* trailing checksum letter X
WellFormed(s) ==
    /\ Len(s) = 19
    /\ \A i \in 1..19 :
          IF i \in {5, 10, 15} THEN s[i] = "-"
          ELSE IF i = 19 THEN s[i] \in Digits \cup {"X"}
          ELSE s[i] \in Digits

\* C9: the check lets a string through exactly when it has the identifier
\* shape, every other string gets the invalid-format return, and a string
\* let through is passed on unchanged.
C9_ValidateExactlyWellFormed ==
    probe.checked
        => /\ (probe.outcome = "fetch") <=> WellFormed(probe.raw)
           /\ (probe.outcome = "invalid") <=> ~ WellFormed(probe.raw)
           /\ probe.outcome = "fetch" => probe.passed = probe.raw


\* C8: a string that fails the identifier check never reaches the network --
\* the callback started with it never waits for an upstream response, and
\* what it returns is the invalid-format outcome.
C8_InvalidNeverReachesNetwork ==
    \A w \in Workers :
        ( /\ req[w].pc # "idle"
          /\ \/ req[w].orcid_id = None
             \/ ~ WellFormed(req[w].orcid_id[1]) )
        => /\ req[w].pc \notin NetPcs \cup {"metadata_net"}
           /\ HasReturned(w) => req[w].ret.outcome = "invalid"

\* The identifiers of a work entry, where it carries any
EntryIds(work) ==
    IF work["work-summary"] = <<>> THEN <<>>
    ELSE IF "external-ids" \notin DOMAIN work["work-summary"][1] THEN <<>>
    ELSE work["work-summary"][1]["external-ids"]["external-id"]

\* The values of the identifiers of type 'doi' of the work entries, entry by
\* entry in the order of the list, repeated where the list repeats them
CanonicalIds(works) ==
    LET RECURSIVE Values(_, _)
        Values(i, j) ==
            IF i > Len(works) THEN <<>>
            ELSE IF j > Len(EntryIds(works[i])) THEN Values(i + 1, 1)
            ELSE IF EntryIds(works[i])[j]["external-id-type"] = "doi"
            THEN <<EntryIds(works[i])[j]["external-id-value"]>> \o Values(i, j + 1)
            ELSE Values(i, j + 1)
    IN  Values(1, 1)

\* The callback on thread w is past its call of fetch_orcid_publications
PastDiscovery(w) ==
    /\ req[w].pc \notin {"idle", "orcid", "orcid_net"}
    /\ ~ Rejected(req[w].orcid_id)

\* C11: Discovery hands back, for a works list the service answered with,
\* exactly the values of the identifiers of type 'doi', in the order of the
\* entries and with repetitions kept; identifiers of other types are left
\* out and an entry without a 'doi' identifier adds nothing and is no error.
C11_DiscoverFiltersInOrder ==
    \A w \in Workers :
        PastDiscovery(w)
            => /\ Discovered(w)
               /\ ~ req[w].disc.failed
                     => req[w].disc.body = CanonicalIds(world.works[req[w].orcid_id[1]])

\* The DOI column of a list of publication records
DoiColumn(rows) == [i \in 1..Len(rows) |-> rows[i]["DOI"]]

\* The rows are the records of the documents of identifier id: one per
\* document the works service lists for it, in that order
IsCollectionOf(rows, id) ==
    /\ id \in DOMAIN world.works
    /\ DoiColumn(rows) = [i \in 1..Len(CanonicalIds(world.works[id])) |->
                             Some(CanonicalIds(world.works[id])[i])]

\* C12: a download hands out the stored rows under a file name made of the
\* sanitized identifier these rows were resolved for and the suffix
\* _publications_list.csv, whatever was typed, submitted or downloaded before.
C12_ExportNamesTheCollection ==
    dl.kind # "none"
        => /\ dl.kind = "file"
           /\ dl.rows = ui.stored_data[1]
           /\ dl.filename.suffix = "_publications_list.csv"
           /\ \E id \in DOMAIN world.works :
                 /\ dl.filename.stem = Sanitize(id)
                 /\ IsCollectionOf(dl.rows, id)

\* The list-shaped fields of a Crossref message that are present but empty
EmptyLists(metadata) ==
    {f \in {"title", "container-title", "author"} :
        f \in DOMAIN metadata /\ metadata[f] = <<>>}
    \cup (IF "published" \in DOMAIN metadata
             /\ "date-parts" \in DOMAIN metadata["published"]
             /\ \/ metadata["published"]["date-parts"] = <<>>
                \/ metadata["published"]["date-parts"][1] = <<>>
          THEN {"date-parts"} ELSE {})

\* The message without its empty list-shaped fields
WithoutEmptyLists(metadata) ==
    [f \in DOMAIN metadata \ (EmptyLists(metadata) \cup
                              (IF "date-parts" \in EmptyLists(metadata)
                               THEN {"published"} ELSE {})) |-> metadata[f]]

\* C13: a list-shaped field that is present with zero elements is taken as
\* absent -- compiling the record raises nothing and gives the record that
\* the same message without the empty field gives.
C13_EmptyListsAreAbsent ==
    \A w \in Workers :
        (req[w].pc = "compile" /\ EmptyLists(req[w].metadata.body) # {})
            => LET r == req[w]
                   result == collect_publication_info(r.dois[r.i], r.metadata.body,
                                                      r.altmetric_data.body)
               IN  /\ ~ result.raised
                   /\ result = collect_publication_info(
                                   r.dois[r.i], WithoutEmptyLists(r.metadata.body),
                                   r.altmetric_data.body)

\* An author entry that carries both a given and a family name
HasBothNames(author) == "given" \in DOMAIN author /\ "family" \in DOMAIN author

\* The authors of a message that carry both names, in list order, each
\* rendered 'given family'
FullNames(metadata) ==
    LET both == SelectSeq(Get(metadata, "author", <<>>), HasBothNames)
    IN  [i \in 1..Len(both) |-> both[i]["given"] \o " " \o both[i]["family"]]

\* C14: the authors field of a compiled record is the ', '-join, in list
\* order, of 'given family' for exactly the author entries that carry both
\* names; an entry lacking either name adds nothing to it.
C14_AuthorsWithBothNames ==
    \A w \in Workers :
        JustCompiled(w)
            => LastRecord(w)["Authors Name"] = Some(Join(FullNames(req[w].metadata.body)))

\* C14 witness: a record compiled from a message whose author list has
\* entries with both names around an entry with a family name only
C14_Witness ==
    \E w \in Workers :
        /\ JustCompiled(w)
        /\ "author" \in DOMAIN req[w].metadata.body
        /\ \E i \in 1..Len(req[w].metadata.body["author"]) :
              /\ 1 < i
              /\ i < Len(req[w].metadata.body["author"])
              /\ ~ HasBothNames(req[w].metadata.body["author"][i])
              /\ HasBothNames(req[w].metadata.body["author"][i - 1])
              /\ HasBothNames(req[w].metadata.body["author"][i + 1])
        /\ LastRecord(w)["Authors Name"] = Some("Ada Byron, Alan Turing")

\* v is what a finished call of resolver fn for doi returned: the service's
\* object, or the empty bag after a failed request
Completed(v, fn, doi, payload) ==
    /\ v.origin = Request(fn, doi)
    /\ v.body = IF v.failed THEN EmptyBag ELSE payload

\* Both resolver calls for doi have finished, in the locals of the callback r
BothCompleted(r, doi) ==
    /\ Completed(r.metadata, "fetch_crossref_metadata", doi, world.meta[doi])
    /\ Completed(r.altmetric_data, "fetch_altmetric_data", doi, world.alt[doi])

\* C15: a document's record is compiled only once both resolver calls for
\* it have finished, each with the service's object or with the empty bag --
\* while either call is outstanding the record is not in the list, and the
\* record is made of what the two calls returned.
C15_BothResolversBeforeCompile ==
    \A w \in Workers :
        /\ req[w].pc \in {"crossref", "crossref_net", "altmetric", "altmetric_net", "compile"}
              => Len(req[w].publications_data) = req[w].i - 1
        /\ req[w].pc = "compile"
              => BothCompleted(req[w], req[w].dois[req[w].i])
        /\ JustCompiled(w)
              => /\ BothCompleted(req[w], LastDoi(w))
                 /\ Returned(LastRecord(w))
                       = collect_publication_info(LastDoi(w), req[w].metadata.body,
                                                  req[w].altmetric_data.body)

\* C15 witness: a record compiled after the Crossref call had failed and
\* the Altmetric call had answered
C15_Witness ==
    \E w \in Workers :
        /\ JustCompiled(w)
        /\ req[w].metadata.failed
        /\ ~ req[w].altmetric_data.failed
        /\ LastRecord(w)["Altmetric Read Count"] # None

(***************************************************************************)
(* Progress.  A callback that is running goes on by itself with every step *)
(* that does not wait for a service: the cache lookups, the compiling of a *)
(* record and the delivery of its response.  The steps that wait for an    *)
(* answer are those of requests.get, which is called without a timeout:    *)
(* it returns when the service answers or the connection fails, and        *)
(* nothing in the program ends the wait otherwise.                         *)
(***************************************************************************)
\* The steps of the callback on thread w that wait for nothing
Local(w) ==
    \/ OrcidLookup(w)
    \/ CrossrefLookup(w)
    \/ AltmetricLookup(w)
    \/ Compile(w)
    \/ Respond(w)

SpecProgress == Init /\ [][Next]_vars /\ \A w \in Workers : WF_vars(Local(w))

\* C16: every callback started with a well-formed identifier eventually
\* returns an outcome, also when a service never answers -- no callback
\* waits for an upstream response forever.
C16_AlwaysReturns ==
    \A w \in Workers : (req[w].pc # "idle") ~> HasReturned(w)

\* The stores and the table of the page
Stored == <<ui.stored_orcid_id, ui.stored_data, ui.table_container>>

\* The callbacks that are under way and that no later submit has superseded
Current == {w \in Workers : req[w].pc # "idle" /\ ~ req[w].stale}
C18_StoredIdMatchesData ==
    ui.stored_orcid_id # None
        => /\ ui.stored_data # None
                 => IsCollectionOf(ui.stored_data[1], ui.stored_orcid_id)
           /\ ui.table_container # None
                 => IsCollectionOf(ui.table_container[1], ui.stored_orcid_id)

\* The response of the callback on thread w is delivered in this step
Delivers(w) ==
    /\ req[w].pc = "respond"
    /\ ~ req[w].stale
    /\ req'[w].pc = "idle"

\* The download button and the store it reads
Button == <<ui.download_disabled, ui.download_style, ui.stored_data>>

\* C19: the download button is enabled only through a submit that ended in
\* 'publications found', and while it is enabled stored-data holds the
\* collection that submit produced -- a delivered 'found' response enables
\* and shows the button and stores its collection, every other delivered
\* response disables and hides it, nothing else touches the button or the
\* store, and a download never finds the store empty.
C19_DownloadOnlyAfterFound ==
    [][ /\ \A w \in Workers :
             Delivers(w)
                => IF req[w].ret.outcome = "found"
                   THEN /\ ~ ui'.download_disabled
                        /\ ui'.download_style = "block"
                        /\ req[w].publications_data # <<>>
                        /\ ui'.stored_data = Some(req[w].publications_data)
                   ELSE /\ req[w].ret.outcome \in {"invalid", "empty", "error"}
                        /\ ui'.download_disabled
                        /\ ui'.download_style = "none"
        /\ (Button' # Button) => \E w \in Workers : Delivers(w)
        /\ ~ ui'.download_disabled => ui'.stored_data # None
        /\ dl'.kind \in {"none", "file"}
        /\ dl'.kind = "file" => dl'.rows # <<>>
      ]_vars

\* C19 witness: the button was enabled by a 'found' response and a download
\* has handed out the stored collection
C19_Witness ==
    /\ ~ ui.download_disabled
    /\ ui.download_style = "block"
    /\ ui.status_alert = "Publications ready. You can now view or download the list."
    /\ dl.kind = "file"
    /\ Some(dl.rows) = ui.stored_data

\* C20: a delivered response of the invalid-format or of the error outcome
\* leaves stored-orcid-id, stored-data and the table as they were; it sets
\* the status message, the spinner and the download button only.
C20_InvalidOrErrorKeepsStores ==
    [][ \A w \in Workers :
            (Delivers(w) /\ req[w].ret.outcome \in {"invalid", "error"})
                => /\ Stored' = Stored
                   /\ ui'.orcid_input = ui.orcid_input
                   /\ ui'.status_alert = req[w].ret.message
                   /\ ui'.download_disabled
      ]_vars

\* C20 witness: the page after an error response, still with the table and
\* the records of an earlier submit
C20_Witness ==
    /\ ui.status_alert = "An error occurred"
    /\ ui.download_disabled
    /\ ui.stored_orcid_id # None
    /\ ui.stored_data # None
    /\ ui.table_container = ui.stored_data

====
